---- MODULE Spec2Model ----
(***************************************************************************)
(* Model of the per-guild music player (src/_musicplayer.py, MusicPlayer). *)
(*                                                                         *)
(* The player runs on one asyncio event loop: a coroutine runs without     *)
(* interruption until an await that really suspends (a Discord HTTP or     *)
(* voice-gateway call).  Each action below is one such uninterrupted       *)
(* segment of a handler; `tasks` holds the suspended coroutines.  The      *)
(* audio player threads of the voice client are the foreign context: a     *)
(* stream that ends leaves a pending `after` callback, which               *)
(* voice_after_ts turns into a voice_after coroutine on the loop.          *)
(*                                                                         *)
(* A handler is an operator from the state (a record) to the set of states *)
(* its segment can end in: what the resolver returns, whether a download   *)
(* or a connect succeeds and the order random.shuffle picks are drawn      *)
(* where the code reads them.                                              *)
(***************************************************************************)
EXTENDS Integers, Sequences, FiniteSets, TLC

\* ------------------------------------------------------------------ bounds
MaxTracks  == 3     \* tracks held by queue + history together (guards play)
MaxStreams == 2     \* player threads alive or with their callback pending
MaxTasks   == 1     \* coroutines suspended at an await at the same time
history_max == 2    \* MusicPlayer.history_max (500 in the source), scaled
QueueLen   == 5     \* tracks of a playlist behind the one that is playing
StoredVolume == 95  \* the volume pull_volume finds in the settings store

\* What api_music.parse_query can return for a query: nothing, one track, a
\* playlist.  A track is the (link, name) pair, kept as one value.
Results == { <<>>, <<"A">>, <<"B", "C">> }
\* The index a play command passes on to enqueue (0: at the end).
Indexes == { 0, 1, 2 }

VARIABLES
    queue,          \* self.queue
    history,        \* self.history
    loop,           \* self.loop: "off" / "on" / "shuffle" ("False" after stop)
    volume,         \* self.volume
    ready_text,     \* self.ready_text
    ready_voice,    \* self.ready_voice
    ready_player,   \* self.ready_player
    busy_player,    \* self.busy_player
    voice_client,   \* self.voice_client: "None", "conn" (connected), "disc"
    embed,          \* self.embed is not None
    topic_channel,  \* self.topic_channel is not None
    player,         \* voice_client._player: "None", "playing", "paused"
    orphans,        \* paused player threads the voice client has dropped
    after,          \* `after` callbacks not yet run, by how the stream ended
    destroyed,      \* destroy() has returned and no play() has run since
    tasks,          \* suspended coroutines: await point -> how many
    cache,          \* guild.id in _data.cache: the session is registered
    last            \* what the last segment did (observation record)

vars == << queue, history, loop, volume, ready_text, ready_voice, ready_player,
           busy_player, voice_client, embed, topic_channel, player, orphans,
           after, destroyed, tasks, cache, last >>

\* The fields of the session object.
session == << queue, history, loop, volume, ready_text, ready_voice,
              ready_player, busy_player, voice_client, embed >>

flags == << ready_text, ready_voice, ready_player, busy_player >>

\* ------------------------------------------------------------ sequences
Take(s, n) == SubSeq(s, 1, IF n < Len(s) THEN n ELSE Len(s))
Drop(s, n) == SubSeq(s, (IF n < Len(s) THEN n ELSE Len(s)) + 1, Len(s))

\* The orders random.shuffle can leave a list in.
Perms(s) ==
    { [i \in 1 .. Len(s) |-> s[f[i]]] :
        f \in { g \in [1 .. Len(s) -> 1 .. Len(s)] :
                  \A i, j \in 1 .. Len(s) : i # j => g[i] # g[j] } }

\* s is t with some elements left out, order kept.
RECURSIVE IsSubseq(_, _)
IsSubseq(s, t) ==
    IF s = <<>> THEN TRUE
    ELSE IF t = <<>> THEN FALSE
    ELSE IF Head(s) = Head(t) THEN IsSubseq(Tail(s), Tail(t))
    ELSE IsSubseq(s, Tail(t))

\* ------------------------------------------------------- observation
\* What one enqueue did (lines 558-585): whether it inserted, the queue it
\* found, the tracks and the index it was given, the queue it left.
NoEnq == [done |-> FALSE, q0 |-> <<>>, ins |-> <<>>, idx |-> 0, q1 |-> <<>>]

\* What one run of voice_next did (lines 749-812): whether it ran and how
\* often it was entered (it calls itself after a refill); whether
\* the empty-queue branch ran, on which loop mode and history, and the queue
\* and history that branch left; the queue the pop found, how many tracks
\* were popped, whether the resolution of the popped track failed, whether a
\* stream was started, what the empty-queue branch logged on the status line.
NoAdv == [ran |-> FALSE, calls |-> 0, empty |-> FALSE, lp |-> "-", h0 |-> <<>>,
          qe |-> <<>>, he |-> <<>>, qp |-> <<>>, pops |-> 0,
          failed |-> FALSE, started |-> FALSE, msg |-> "-"]

\* Observation of one segment: the handler it belongs to, the exception that
\* escaped it, whether it stopped a stream that had not ended; for
\* voice_after: whether the session was torn down and how the stream ended;
\* for remove and volume: the text they were given, the range remove
\* parsed from it (0-based, upper exclusive), the number of tracks it
\* removed, the number of tracks skip or rewind moved between queue and
\* history; the level of the warning or error the segment logged on
\* ui_loggers["status"]; whether the segment ran destroy to its last line;
\* the queuesize the segment last logged on ui_loggers["queuesize"] (-1: it
\* logged none).
Obs(op) == [op |-> op, exc |-> "none", stopped |-> FALSE, late |-> FALSE,
            by |-> "-", arg |-> "-", lo |-> 0, hi |-> 0, removed |-> 0,
            moved |-> 0, status |-> "-", completed |-> FALSE,
            pub |-> 0 - 1,
            enq |-> NoEnq, adv |-> NoAdv]

\* ------------------------------------------------------------ state
PCs == { "play_topic", "play_typing", "play_send", "play_connect",
         "play_next_topic", "after_next_topic",
         "stop_topic", "stop_disc",
         "destroy_topic", "destroy_disc", "destroy_embed",
         "mt_delete", "mt_send", "mv_disc", "mv_connect" }

\* No `after` callback is pending.  A stream ends by itself ("natural": out
\* of audio, or failed) or because stop() was called ("stop").
NoAfter == [natural |-> 0, stop |-> 0]

\* The state as one record, so that a handler is a function on it.  ctl is
\* the handler's control state inside the segment: "run", "done" (returned),
\* "raised" (an exception left it), "susp" (suspended at an await).
Cur(op) ==
    [queue |-> queue, history |-> history, loop |-> loop, volume |-> volume,
     ready_text |-> ready_text, ready_voice |-> ready_voice,
     ready_player |-> ready_player, busy_player |-> busy_player,
     voice_client |-> voice_client, embed |-> embed,
     topic_channel |-> topic_channel, player |-> player, orphans |-> orphans,
     after |-> after, destroyed |-> destroyed, tasks |-> tasks, last |-> Obs(op), ctl |-> "run"]

Assign(s) ==
    /\ queue' = s.queue
    /\ history' = s.history
    /\ loop' = s.loop
    /\ volume' = s.volume
    /\ ready_text' = s.ready_text
    /\ ready_voice' = s.ready_voice
    /\ ready_player' = s.ready_player
    /\ busy_player' = s.busy_player
    /\ voice_client' = s.voice_client
    /\ embed' = s.embed
    /\ topic_channel' = s.topic_channel
    /\ player' = s.player
    /\ orphans' = s.orphans
    /\ after' = s.after
    /\ destroyed' = s.destroyed
    /\ tasks' = s.tasks
    /\ last' = s.last

\* A segment of the session leaves the registry alone.
Commit(s) == Assign(s) /\ cache' = cache

\* Number of suspended coroutines.
TaskTotal(tk) ==
    tk["play_topic"] + tk["play_typing"] + tk["play_send"] + tk["play_connect"]
    + tk["play_next_topic"] + tk["after_next_topic"]
    + tk["stop_topic"] + tk["stop_disc"]
    + tk["destroy_topic"] + tk["destroy_disc"] + tk["destroy_embed"]
    + tk["mt_delete"] + tk["mt_send"] + tk["mv_disc"] + tk["mv_connect"]

\* The bounds of the model: a segment is left out when it would suspend one
\* coroutine or start one stream more than the model holds.
Within(s) == s.ctl # "over" /\ TaskTotal(s.tasks) <= MaxTasks

\* One segment: any of the states the handler can end it in.
Do(S) == \E s \in S : Within(s) /\ Commit(s)

\* An exception leaves the handler: the coroutine ends, nothing after the
\* raising statement runs.
Raise(s, exc) == [s EXCEPT !.ctl = "raised", !.last.exc = exc]

Return(s) == IF s.ctl = "run" THEN [s EXCEPT !.ctl = "done"] ELSE s

\* The coroutine suspends at await point pc.
Suspend(s, pc) == [s EXCEPT !.ctl = "susp", !.tasks[pc] = @ + 1]

\* The await points of play() and of what it calls.
PlayPCs == { "play_topic", "play_typing", "play_send", "play_connect",
             "play_next_topic" }

\* The coroutine suspended at pc is resumed by the event loop.
Resumed(pc) ==
    [Cur(pc) EXCEPT !.tasks[pc] = @ - 1,
                    !.destroyed = IF pc \in PlayPCs THEN FALSE ELSE @]

\* update_queue, lines 681-696: the queue display and its size are logged.
update_queue(s) == [s EXCEPT !.last.pub = Len(s.queue)]

\* ------------------------------------------------------- transport
\* discord.VoiceClient as the player uses it.  A stream is one AudioPlayer
\* thread; it calls `after` once, when it ends (source exhausted, failure or
\* stop()).  A paused thread waits until it is resumed or stopped.  `player`
\* is the thread the client refers to while that thread is alive: one that
\* has ended answers every call as no player does.

\* voice_client.is_playing()
IsPlaying(s) == s.player = "playing"

\* Player threads alive or with their callback pending.
StreamCount(s) ==
    (IF s.player = "None" THEN 0 ELSE 1) + s.orphans
    + s.after.natural + s.after.stop

\* voice_client.stop(): ends the current player thread, forgets it.
VcStop(s) ==
    IF s.player = "None" THEN s
    ELSE [s EXCEPT !.player = "None",
                   !.after.stop = @ + 1,
                   !.last.stopped = TRUE]

\* voice_client.disconnect(): stops the player and clears the connection at
\* once, then awaits the gateway; returns at once when not connected.
VcDisconnect(s) == [VcStop(s) EXCEPT !.voice_client = "disc"]

\* voice_client.play(source, after=...), line 812: refused while a player is
\* playing; a paused player is replaced and its thread left waiting.
VcPlay(s) ==
    IF s.voice_client = "None" THEN Raise(s, "AttributeError")
    ELSE IF s.voice_client = "disc" THEN Raise(s, "ClientException")
    ELSE IF IsPlaying(s) THEN Raise(s, "ClientException")
    ELSE IF StreamCount(s) >= MaxStreams THEN [s EXCEPT !.ctl = "over"]
    ELSE [s EXCEPT !.player = "playing",
                   !.orphans = IF s.player = "paused" THEN @ + 1 ELSE @,
                   !.last.adv.started = TRUE]

\* The result of await voice_channel.connect(): a new connected client, or
\* (ok false) ClientException / OpusNotLoaded, on which voice_setup returns.
\* connect() raises while the guild still has a connected client.
Connected(s) ==
    {s} \cup (IF s.voice_client = "conn" THEN {}
              ELSE {[s EXCEPT !.voice_client = "conn", !.player = "None"]})


\* ------------------------------------------------------------ advance
\* update_topic (lines 698-710): the await suspends only when a topic
\* channel is configured (topic_channel.edit is an HTTP call).
TopicSuspends(s) == s.topic_channel

\* Lines 790-791: the history is cut back to history_max from the front.
RECURSIVE CapHistory(_)
CapHistory(h) == IF Len(h) > history_max THEN CapHistory(Tail(h)) ELSE h

\* A voice_next that returns without starting the stream.
VoiceNextNoPlay(s) == Return(s)

\* voice_next, line 812: the stream starts.
VoiceNextPlay(s) == Return(VcPlay(s))

\* A pop that takes the last track of the queue (pop() for pop(0)).
VoiceNextPopBack(s, pc) ==
    LET n  == Len(s.queue)
        s1 == [s EXCEPT !.queue = SubSeq(s.queue, 1, n - 1),
                        !.history = CapHistory(Append(s.history, s.queue[n])),
                        !.last.adv.qp = s.queue,
                        !.last.adv.pops = @ + 1]
    IN  {Raise([s1 EXCEPT !.last.adv.failed = TRUE], "DownloadError")} \cup
        (IF TopicSuspends(s1) THEN {Suspend(s1, pc)} ELSE {VoiceNextPlay(s1)})

\* voice_next, lines 784-812: pop the front track into the history, resolve
\* it (ytdl.extract_info raises DownloadError on failure), publish, start the
\* stream.  pc names the caller's await point inside update_topic.
VoiceNextPop(s, pc) ==
    LET s1 == [s EXCEPT !.queue = Tail(s.queue),
                        !.history = CapHistory(Append(s.history, Head(s.queue))),
                        !.last.adv.qp = s.queue,
                        !.last.adv.pops = @ + 1]
        s2 == update_queue(s1)
    IN  {Raise([s1 EXCEPT !.last.adv.failed = TRUE], "DownloadError")} \cup
        (IF TopicSuspends(s2) THEN {Suspend(s2, pc)} ELSE {VoiceNextPlay(s2)})

\* voice_next, lines 765-773: the info line of the empty-queue branch.
EmptyBranchSays(lp) ==
    IF lp = "on" THEN "Finished queue; looping"
    ELSE IF lp = "shuffle" THEN "Finished queue; looping and shuffling"
    ELSE "Finished queue"

\* An empty-queue branch that loops whatever the loop mode is.
EmptyBranchAlwaysLoops(s) ==
    { [s EXCEPT !.ready_player = TRUE,
                !.queue = s.history,
                !.history = <<>>,
                !.last.adv.msg = EmptyBranchSays(s.loop),
                !.last.adv.empty = TRUE,
                !.last.adv.lp = s.loop,
                !.last.adv.h0 = s.history,
                !.last.adv.qe = s.history,
                !.last.adv.he = <<>>] }

\* An empty-queue branch that refills the queue and keeps the history.
EmptyBranchKeepsHistory(s) ==
    LET qs == IF s.loop = "on" THEN {s.history}
              ELSE IF s.loop = "shuffle" THEN Perms(s.history)
              ELSE {s.queue}
    IN  { [s EXCEPT !.ready_player = TRUE,
                    !.queue = q,
                    !.last.adv.msg = EmptyBranchSays(s.loop),
                    !.last.adv.empty = TRUE,
                    !.last.adv.lp = s.loop,
                    !.last.adv.h0 = s.history,
                    !.last.adv.qe = q,
                    !.last.adv.he = s.history] : q \in qs }

\* voice_next, lines 762-775: the empty-queue branch.
EmptyBranch(s) ==
    LET qs == IF s.loop = "on" THEN {s.history}
              ELSE IF s.loop = "shuffle" THEN Perms(s.history)
              ELSE {s.queue}
        h1 == <<>>
    IN  { update_queue(
          [s EXCEPT !.ready_player = TRUE,
                    !.queue = q,
                    !.history = h1,
                    !.last.adv.msg = EmptyBranchSays(s.loop),
                    !.last.adv.empty = TRUE,
                    !.last.adv.lp = s.loop,
                    !.last.adv.h0 = s.history,
                    !.last.adv.qe = q,
                    !.last.adv.he = h1]) : q \in qs }

\* A test that also sends a looping session round once more.
RefilledOrLooping(s) ==
    s.queue # <<>> \/ (s.loop \in {"on", "shuffle"} /\ s.last.adv.calls < 2)

\* voice_next, line 777: `if self.queue:` after the rebuild.
Refilled(s) == s.queue # <<>>

\* voice_next, lines 749-812.
RECURSIVE voice_next(_, _)
voice_next(s, pc) ==
    IF s.voice_client = "None" THEN {Raise(s, "AttributeError")}
    ELSE
    LET s0 == [s EXCEPT !.last.adv.ran = TRUE, !.last.adv.calls = @ + 1]
        s1 == IF IsPlaying(s0) THEN VcStop(s0) ELSE s0
    IN  IF s1.queue = <<>>
        THEN UNION { IF Refilled(s2) THEN voice_next(s2, pc)
                     ELSE {Return(s2)} : s2 \in EmptyBranch(s1) }
        ELSE VoiceNextPop(s1, pc)

\* ------------------------------------------------------------ enqueue
\* A splice at queue[index:index] (one place too far back).
SpliceAtIndex(q, ins, index) ==
    IF index = 0 THEN q \o ins
    ELSE LET at == IF index > Len(q) THEN Len(q) ELSE index
         IN  SubSeq(q, 1, at) \o ins \o SubSeq(q, at + 1, Len(q))

\* Lines 580-583: extend, or the slice assignment queue[index-1:index-1].
\* A Python slice clamps its bounds to the list.
Splice(q, ins, index) ==
    IF index = 0 THEN q \o ins
    ELSE LET at == IF index - 1 > Len(q) THEN Len(q) ELSE index - 1
         IN  SubSeq(q, 1, at) \o ins \o SubSeq(q, at + 1, Len(q))

\* Lines 573-578: what parse_query returns, shuffled when the flag is set.
\* The model leaves out results that would exceed MaxTracks.
Parsed(s, shuffle) ==
    UNION { IF shuffle THEN Perms(r) ELSE {r} :
              r \in { x \in Results :
                        Len(s.queue) + Len(s.history) + Len(x) <= MaxTracks } }

\* enqueue, lines 558-585.
enqueue(s, index, shuffle) ==
    { IF ins = <<>> THEN s
      ELSE LET q1 == Splice(s.queue, ins, index) IN
           update_queue(
             [s EXCEPT !.queue = q1,
                       !.last.enq = [done |-> TRUE, q0 |-> s.queue, ins |-> ins,
                                     idx |-> index, q1 |-> q1]]) :
      ins \in Parsed(s, shuffle) }

\* --------------------------------------------------------------- play
\* play, lines 136-137.
PlayAdvance(s, interrupt) ==
    IF s.voice_client = "None" THEN {Raise(s, "AttributeError")}
    ELSE IF ~IsPlaying(s) \/ interrupt THEN voice_next(s, "play_next_topic")
    ELSE {Return(s)}

\* play, lines 133-138; index, interrupt and shuffle are the command's
\* arguments.
PlayTail(s) ==
    IF s.ready_player
    THEN UNION { UNION { PlayAdvance(e, a[2]) : e \in enqueue(s, a[1], a[3]) } :
                   a \in Indexes \X BOOLEAN \X BOOLEAN }
    ELSE {Return(s)}

\* play, lines 127-131 (the test reads ready_text twice).
PlayInitEnd(s) ==
    IF s.ready_text /\ s.ready_text
    THEN [s EXCEPT !.busy_player = FALSE, !.ready_player = TRUE]
    ELSE [s EXCEPT !.busy_player = FALSE]

\* voice_setup, lines 713-747, up to the await of connect(); without a voice
\* channel it returns at once.
PlayVoiceSetup(s) ==
    {Suspend(s, "play_connect")} \cup PlayTail(PlayInitEnd(s))

\* text_setup, lines 588-612, up to the await of trigger_typing().
PlayTextSetup(s) ==
    IF s.ready_text THEN PlayVoiceSetup(s) ELSE {Suspend(s, "play_typing")}

\* play, lines 100-138, from the call.
play(s) ==
    IF ~s.ready_player
    THEN LET s1 == [s EXCEPT !.busy_player = TRUE, !.history = <<>>,
                             !.destroyed = FALSE]
         IN  IF TopicSuspends(s1) THEN {Suspend(s1, "play_topic")}
             ELSE PlayTextSetup(s1)
    ELSE PlayTail(s)

Play == Do(play(Cur("play")))

PlayTopicDone ==
    tasks["play_topic"] > 0 /\ Do(PlayTextSetup(Resumed("play_topic")))

\* text_setup, lines 608-609: the embed is built, then send() is awaited.
PlayTypingDone ==
    /\ tasks["play_typing"] > 0
    /\ Do({Suspend([Resumed("play_typing") EXCEPT !.embed = TRUE],
                   "play_send")})

\* text_setup, lines 610-612, then voice_setup.
PlaySendDone ==
    /\ tasks["play_send"] > 0
    /\ Do(PlayVoiceSetup([Resumed("play_send") EXCEPT !.ready_text = TRUE]))

\* voice_setup, lines 736-747, then play, lines 127-138.
PlayConnectDone ==
    /\ tasks["play_connect"] > 0
    /\ Do(UNION { PlayTail(PlayInitEnd(c)) :
                    c \in Connected(Resumed("play_connect")) })

\* voice_next resumes after update_topic, called from play.
PlayNextTopicDone ==
    /\ tasks["play_next_topic"] > 0
    /\ Do({VoiceNextPlay(Resumed("play_next_topic"))})

\* ------------------------------------------------------- completion
\* The playing stream runs out of audio or fails: its thread ends and calls
\* `after`.
StreamEnd ==
    /\ player = "playing"
    /\ Do({[Cur("stream_end") EXCEPT !.player = "None",
                                     !.after.natural = @ + 1]})

\* voice_after, lines 824-842; err: the stream ended with an error.
voice_after(s, err) ==
    IF err
    THEN (IF s.voice_client = "None" THEN {Raise(s, "AttributeError")}
          ELSE voice_next(VcStop(s), "after_next_topic"))
    ELSE voice_next(s, "after_next_topic")

\* voice_after_ts, lines 814-822: the thread of an ended stream hands
\* voice_after to the event loop, which runs it.  Only a stream that ended
\* by itself can report an error.
VoiceAfter ==
    \E by \in {"natural", "stop"} :
        /\ after[by] > 0
        /\ \E err \in (IF by = "natural" THEN BOOLEAN ELSE {FALSE}) :
             Do(voice_after(
                 [Cur("voice_after") EXCEPT !.after[by] = @ - 1,
                                            !.last.by = by,
                                            !.last.late = destroyed],
                 err))

AfterNextTopicDone ==
    /\ tasks["after_next_topic"] > 0
    /\ Do({VoiceNextPlay(Resumed("after_next_topic"))})


\* ------------------------------------------------------ stop, destroy
\* stop, lines 161-170.
StopEnd(s) ==
    Return(update_queue(
             [s EXCEPT !.voice_client = "None", !.player = "None",
                       !.queue = <<>>, !.history = <<>>,
                       !.busy_player = FALSE]))

\* stop, lines 147-159.
StopMid(s) ==
    LET s1 == [s EXCEPT !.ready_voice = FALSE, !.loop = "False"]
    IN  IF s1.voice_client = "conn"
        THEN Suspend(VcDisconnect(s1), "stop_disc")
        ELSE StopEnd(s1)

\* stop, lines 140-170, from the call.
stop(s) ==
    LET s1 == [s EXCEPT !.ready_player = FALSE, !.busy_player = TRUE]
    IN  IF TopicSuspends(s1) THEN Suspend(s1, "stop_topic") ELSE StopMid(s1)

\* destroy, line 199.
DestroyEnd(s) ==
    Return([s EXCEPT !.busy_player = FALSE, !.destroyed = TRUE,
                     !.last.completed = TRUE])

\* destroy, lines 190-197.
DestroyClear(s) ==
    LET s1 == [s EXCEPT !.voice_client = "None", !.player = "None",
                        !.queue = <<>>, !.history = <<>>]
    IN  IF s1.embed THEN Suspend(s1, "destroy_embed") ELSE DestroyEnd(s1)

\* destroy, lines 180-188.
DestroyMid(s) ==
    LET s1 == [s EXCEPT !.ready_text = FALSE, !.ready_voice = FALSE,
                        !.loop = "off"]
    IN  IF s1.voice_client = "conn"
        THEN Suspend(VcDisconnect(s1), "destroy_disc")
        ELSE DestroyClear(s1)

\* destroy, lines 172-199, from the call.
destroy(s) ==
    LET s1 == [s EXCEPT !.ready_player = FALSE, !.busy_player = TRUE]
    IN  IF TopicSuspends(s1) THEN Suspend(s1, "destroy_topic")
        ELSE DestroyMid(s1)

Stop == Do({stop(Cur("stop"))})
StopTopicDone ==
    tasks["stop_topic"] > 0 /\ Do({StopMid(Resumed("stop_topic"))})
StopDiscDone ==
    tasks["stop_disc"] > 0 /\ Do({StopEnd(Resumed("stop_disc"))})

Destroy == Do({destroy(Cur("destroy"))})
DestroyTopicDone ==
    tasks["destroy_topic"] > 0 /\ Do({DestroyMid(Resumed("destroy_topic"))})
DestroyDiscDone ==
    tasks["destroy_disc"] > 0 /\ Do({DestroyClear(Resumed("destroy_disc"))})
\* destroy, lines 196-199: embed.delete() returned.
DestroyEmbedDone ==
    /\ tasks["destroy_embed"] > 0
    /\ Do({DestroyEnd([Resumed("destroy_embed") EXCEPT !.embed = FALSE])})

\* ----------------------------------------------------- pause, resume
\* pause, lines 204-217.
pause(s) ==
    IF ~s.ready_player THEN Return(s)
    ELSE IF s.voice_client = "None" THEN Return(s)
    ELSE IF s.voice_client # "conn" THEN Return(s)
    ELSE IF ~IsPlaying(s) THEN Return(s)
    ELSE Return([s EXCEPT !.player = "paused"])

\* resume, lines 219-230.
resume(s) ==
    IF ~s.ready_player THEN Return(s)
    ELSE IF s.voice_client = "None" THEN Raise(s, "AttributeError")
    ELSE IF s.voice_client # "conn" THEN Return(s)
    ELSE IF IsPlaying(s) THEN Return(s)
    ELSE IF s.player = "paused"
         THEN Return([s EXCEPT !.player = "playing"])
         ELSE Return(s)

\* toggle, lines 232-243.
toggle(s) ==
    IF ~s.ready_player THEN Return(s)
    ELSE IF s.voice_client = "None" THEN Raise(s, "AttributeError")
    ELSE IF s.voice_client # "conn" THEN Return(s)
    ELSE IF IsPlaying(s) THEN pause(s) ELSE resume(s)

Pause == Do({pause(Cur("pause"))})
Resume == Do({resume(Cur("resume"))})
Toggle == Do({toggle(Cur("toggle"))})

\* ------------------------------------------------- command arguments
\* int(text) on the argument texts the model uses; int() raises ValueError
\* on every other text.
IntOf == ("-1" :> (0 - 1)) @@ ("-5" :> (0 - 5)) @@ ("0" :> 0) @@ ("1" :> 1) @@
         ("2" :> 2) @@ ("3" :> 3) @@ ("4" :> 4) @@ ("5" :> 5) @@ ("6" :> 6) @@
         ("7" :> 7) @@ ("23" :> 23) @@ ("95" :> 95) @@ ("200" :> 200) @@
         ("250" :> 250)
IsInt(a) == a \in DOMAIN IntOf

\* text.split("-") on the remove arguments the model uses.
SplitDash == ("1" :> <<"1">>) @@ ("2" :> <<"2">>) @@ ("0" :> <<"0">>) @@
             ("4" :> <<"4">>) @@ ("6" :> <<"6">>) @@ ("7" :> <<"7">>) @@
             ("x" :> <<"x">>) @@ ("1-x" :> <<"1", "x">>) @@
             ("1-2" :> <<"1", "2">>) @@ ("2-3" :> <<"2", "3">>) @@
             ("2-1" :> <<"2", "1">>) @@ ("3-3" :> <<"3", "3">>) @@
             ("0-2" :> <<"0", "2">>) @@ ("3-5" :> <<"3", "5">>) @@
             ("4-6" :> <<"4", "6">>) @@ ("5-7" :> <<"5", "7">>) @@
             ("1-2-3" :> <<"1", "2", "3">>)

SkipArgs   == { "", "all", "1", "2", "4", "x" }
RewindArgs == { "", "0", "1", "2", "-1", "x" }
RemoveArgs == { "", "all" } \cup DOMAIN SplitDash
\* The remove arguments that lines 302-314 parse into a range: one or two
\* numbers.
RangeArgs  == { a \in DOMAIN SplitDash :
                  /\ Len(SplitDash[a]) <= 2
                  /\ \A i \in 1 .. Len(SplitDash[a]) : IsInt(SplitDash[a][i]) }
LoopArgs   == { "on", "off", "shuffle", "random" }
VolumeArgs == { "+", "-", "0", "23", "95", "200", "250", "-5", "x" }

\* ------------------------------------------------ skip, remove, rewind
\* A skip that starts the next track itself after stopping the stream.
SkipStopAndAdvance(s) ==
    IF s.voice_client = "None" THEN Raise(s, "AttributeError")
    ELSE CHOOSE x \in voice_next(VcStop(s), "after_next_topic") : TRUE

\* skip, lines 275-278: the stream is stopped, nothing more; its callback
\* does the advance.  `except discord.ClientException or AttributeError`
\* names ClientException only.
SkipStop(s) ==
    IF s.voice_client = "None" THEN Raise(s, "AttributeError")
    ELSE Return(VcStop(s))

\* A skip whose "all" counts the queued tracks only.
SkipAmountQueued(s, amount) ==
    IF amount = "" THEN 1
    ELSE IF amount = "all" THEN Len(s.queue)
    ELSE IntOf[amount]

\* skip, lines 256-262: the number int(amount) yields; "" stands for "1" and
\* "all" for the queue and the track that is playing.
SkipAmount(s, amount) ==
    IF amount = "" THEN 1
    ELSE IF amount = "all" THEN Len(s.queue) + 1
    ELSE IntOf[amount]

\* A skip that moves one track for each number counted.
SkipCountAll(num) == IF num > 0 THEN num ELSE 0

\* skip, line 270: range(num - 1) counts num - 1 times, never for num < 2.
SkipCount(num) == IF num - 1 > 0 THEN num - 1 ELSE 0

\* skip, lines 245-278.  `except TypeError or ValueError` names TypeError
\* only.
skip(s, amount) ==
    IF ~s.ready_player THEN Return(s)
    ELSE IF amount \notin {"", "all"} /\ ~IsInt(amount)
         THEN Raise(s, "ValueError")
    ELSE LET num == SkipAmount(s, amount)
             n  == SkipCount(num)
             s1 == [s EXCEPT !.history = s.history \o Take(s.queue, n),
                              !.queue = Drop(s.queue, n),
                              !.last.moved = Len(Take(s.queue, n))]
         IN  SkipStop(update_queue(s1))

\* A remove that takes the track at `upper` as well.
RemovePopsThrough(q, lower, upper) ==
    SubSeq(q, 1, lower) \o SubSeq(q, upper + 2, Len(q))

\* remove, lines 330-332: pop(num_lower), upper - lower times.
RemovePops(q, lower, upper) ==
    SubSeq(q, 1, lower) \o SubSeq(q, upper + 1, Len(q))

\* A remove that does not test the upper end of the range.
RemoveRangeUnchecked(s, lower, upper) ==
    LET s0 == [s EXCEPT !.last.lo = lower, !.last.hi = upper] IN
    IF lower < 0 \/ lower >= Len(s0.queue)
    THEN Return([s0 EXCEPT !.last.status = "error"])
    ELSE Return([s0 EXCEPT !.queue = RemovePops(s0.queue, lower, upper),
                           !.last.removed = upper - lower])

\* remove, lines 316-339, the range once parsed: 0-based, upper exclusive.
RemoveRange(s, lower, upper) ==
    LET s0 == [s EXCEPT !.last.lo = lower, !.last.hi = upper] IN
    IF lower < 0 \/ lower >= Len(s0.queue) \/ upper > Len(s0.queue)
    THEN Return([s0 EXCEPT !.last.status =
                     IF Len(s0.queue) = 0 THEN "warning" ELSE "error"])
    ELSE IF upper <= lower THEN Return([s0 EXCEPT !.last.status = "error"])
    ELSE Return(update_queue(
                  [s0 EXCEPT !.queue = RemovePops(s0.queue, lower, upper),
                             !.last.removed = upper - lower]))

\* remove, lines 280-339.
remove(s, index) ==
    LET s0 == [s EXCEPT !.last.arg = index] IN
    IF ~s0.ready_player THEN Return(s0)
    ELSE IF index = "" THEN Return([s0 EXCEPT !.last.status = "error"])
    ELSE IF index = "all"
         THEN Return(update_queue([s0 EXCEPT !.queue = <<>>,
                                              !.last.removed = Len(s0.queue)]))
    ELSE LET parts == SplitDash[index] IN
         IF Len(parts) > 2 THEN Return([s0 EXCEPT !.last.status = "error"])
         ELSE IF \E i \in 1 .. Len(parts) : ~IsInt(parts[i])
              THEN Raise(s0, "ValueError")
         ELSE IF Len(parts) = 1
              THEN RemoveRange(s0, IntOf[parts[1]] - 1, IntOf[parts[1]])
              ELSE RemoveRange(s0, IntOf[parts[1]] - 1, IntOf[parts[2]])

\* rewind, lines 377-380.
RewindStop(s) ==
    IF s.voice_client = "None" THEN Raise(s, "AttributeError")
    ELSE Return(VcStop(s))

\* A rewind that leaves the tracks in the order it popped them.
RewindMoveReversed(s, k) ==
    [s EXCEPT !.queue = [i \in 1 .. k |-> s.history[Len(s.history) + 1 - i]]
                        \o s.queue,
              !.history = SubSeq(s.history, 1, Len(s.history) - k)]

\* A rewind that inserts the tracks without popping them off the history.
RewindMoveCopies(s, k) ==
    [s EXCEPT !.queue = SubSeq(s.history, Len(s.history) - k + 1,
                               Len(s.history)) \o s.queue]

\* rewind, lines 372-374: the last k tracks of the history, popped one by
\* one and each inserted at the head of the queue.
RewindMove(s, k) ==
    [s EXCEPT !.queue = SubSeq(s.history, Len(s.history) - k + 1,
                               Len(s.history)) \o s.queue,
              !.history = SubSeq(s.history, 1, Len(s.history) - k)]

\* A rewind that pops once for each number counted.
RewindCountExact(num, len) == IF num < len THEN num ELSE len

\* rewind, lines 372-374: range(num + 1) pops, as long as there is history.
RewindCount(num, len) == IF num + 1 < len THEN num + 1 ELSE len

\* rewind, lines 341-380.
rewind(s, amount) ==
    IF ~s.ready_player THEN Return(s)
    ELSE IF amount # "" /\ ~IsInt(amount) THEN Raise(s, "ValueError")
    ELSE LET num == IF amount = "" THEN 1 ELSE IntOf[amount] IN
         IF Len(s.history) = 0
         THEN Return([s EXCEPT !.last.status = "error"])
         ELSE IF num < 0 THEN Return([s EXCEPT !.last.status = "error"])
         ELSE LET k  == RewindCount(num, Len(s.history))
                  s1 == [s EXCEPT !.last.status =
                             IF num > Len(s.history) THEN "warning" ELSE "-",
                           !.last.moved = k]
              IN  RewindStop(RewindMove(s1, k))

Skip == \E amount \in SkipArgs : Do({skip(Cur("skip"), amount)})
Remove == \E index \in RemoveArgs : Do({remove(Cur("remove"), index)})
Rewind == \E amount \in RewindArgs : Do({rewind(Cur("rewind"), amount)})

\* ------------------------------------------------ shuffle, loop, volume
\* shuffle, lines 382-392.
shuffle(s) ==
    IF ~s.ready_player THEN {Return(s)}
    ELSE { Return(update_queue([s EXCEPT !.queue = q])) :
             q \in Perms(s.queue) }

\* loop, lines 394-412.
set_loop(s, loop_type) ==
    IF loop_type \notin {"on", "off", "shuffle"} THEN Return(s)
    ELSE Return([s EXCEPT !.loop = loop_type])

\* A volume step that adds ten.
VolumeUpByTen(v) == v + 10

\* volume, line 427.
VolumeUp(v) == (10 * (v \div 10)) + 10

\* volume, line 438.
VolumeDown(v) == (10 * ((v + 9) \div 10)) - 10

\* A range test without its upper end.
VolumeInRangeOpen(v) == 0 <= v

\* volume, line 455.
VolumeInRange(v) == 0 <= v /\ v <= 200

\* volume, lines 414-466.  push_volume (line 466) stores self.volume on every
\* path past the readiness test.
set_volume(s, value) ==
    LET s0 == [s EXCEPT !.last.arg = value] IN
    IF ~s0.ready_player THEN Return(s0)
    ELSE IF value = "+"
         THEN (IF s0.volume < 100
               THEN Return([s0 EXCEPT !.volume = VolumeUp(s0.volume)])
               ELSE Return([s0 EXCEPT !.last.status = "warning"]))
    ELSE IF value = "-"
         THEN (IF s0.volume > 0
               THEN Return([s0 EXCEPT !.volume = VolumeDown(s0.volume)])
               ELSE Return([s0 EXCEPT !.last.status = "warning"]))
    ELSE IF ~IsInt(value) THEN Return([s0 EXCEPT !.last.status = "error"])
    ELSE IF VolumeInRange(IntOf[value])
         THEN Return([s0 EXCEPT !.volume = IntOf[value]])
         ELSE Return([s0 EXCEPT !.last.status = "error"])

Shuffle == Do(shuffle(Cur("shuffle")))
Loop == \E loop_type \in LoopArgs : Do({set_loop(Cur("loop"), loop_type)})
Volume == \E value \in VolumeArgs : Do({set_volume(Cur("volume"), value)})

\* ------------------------------------------------ movetext, movevoice
\* movetext, lines 468-482: no readiness test; self.embed is None until
\* text_setup has run and after destroy.
movetext(s) ==
    IF ~s.embed THEN Raise(s, "AttributeError") ELSE Suspend(s, "mt_delete")

\* movetext, lines 478-479.
MoveTextSend(s) ==
    IF ~s.embed THEN Raise(s, "AttributeError") ELSE Suspend(s, "mt_send")

\* movevoice, lines 502-507, up to the await of connect(); without a voice
\* channel voice_setup returns at once, and line 509 finds ready_voice false.
MoveVoiceReconnect(s) ==
    LET s1 == [s EXCEPT !.ready_player = FALSE, !.busy_player = TRUE,
                        !.ready_voice = FALSE]
    IN  {Suspend(s1, "mv_connect"), Return(s1)}

\* movevoice, lines 509-515: ready_voice is set nowhere in the class.
MoveVoiceEnd(s) ==
    IF s.ready_voice
    THEN LET s1 == [s EXCEPT !.busy_player = FALSE, !.ready_player = TRUE]
         IN  IF s1.voice_client # "None" THEN Return(VcStop(s1))
             ELSE Return(s1)
    ELSE Return(s)

\* movevoice, lines 484-515, from the call.
movevoice(s) ==
    IF ~s.ready_player THEN {Return(s)}
    ELSE IF s.voice_client = "conn"
         THEN {Suspend(VcDisconnect(s), "mv_disc")}
         ELSE MoveVoiceReconnect(s)

MoveText == Do({movetext(Cur("movetext"))})
MoveTextDeleteDone ==
    tasks["mt_delete"] > 0 /\ Do({MoveTextSend(Resumed("mt_delete"))})
MoveTextSendDone ==
    tasks["mt_send"] > 0 /\ Do({Return(Resumed("mt_send"))})

MoveVoice == Do(movevoice(Cur("movevoice")))
MoveVoiceDiscDone ==
    tasks["mv_disc"] > 0 /\ Do(MoveVoiceReconnect(Resumed("mv_disc")))
MoveVoiceConnectDone ==
    /\ tasks["mv_connect"] > 0
    /\ Do({ MoveVoiceEnd(c) : c \in Connected(Resumed("mv_connect")) })

\* ---------------------------------------------------------- registry
\* MusicPlayer(guild.id), lines 43-97, as on_command constructs it: the
\* fields of a new instance.
New(op) ==
    [Cur(op) EXCEPT !.queue = <<>>, !.history = <<>>, !.loop = "off",
                    !.volume = StoredVolume,
                    !.ready_text = FALSE, !.ready_voice = FALSE,
                    !.ready_player = FALSE, !.busy_player = FALSE,
                    !.voice_client = "None", !.embed = FALSE,
                    !.destroyed = FALSE]

\* on_command, lines 25-27, before the command is dispatched to the
\* instance.  Without an entry `or` does not evaluate its right side and a
\* new instance is stored; with an entry `.state` is read, an attribute
\* MusicPlayer does not have (it is assigned nowhere in the class).
OnCommand ==
    IF ~cache
    THEN Assign(Return(New("on_command"))) /\ cache' = TRUE
    ELSE Do({Raise(Cur("on_command"), "AttributeError")})

\* on_ready, line 6: _musicplayer defines no clear_cache_root; the handler
\* ends there, before the registry is looked at.
OnReady == Do({Raise(Cur("on_ready"), "AttributeError")})

\* -------------------------------------------------------------- spec
\* MusicPlayer.__init__, lines 43-97.  The volume and whether a topic
\* channel is configured come from the settings store.
Constructed ==
    /\ queue = <<>>
    /\ history = <<>>
    /\ loop = "off"
    /\ volume = StoredVolume
    /\ ready_text = FALSE
    /\ ready_voice = FALSE
    /\ ready_player = FALSE
    /\ busy_player = FALSE
    /\ voice_client = "None"
    /\ embed = FALSE
    /\ topic_channel \in BOOLEAN
    /\ player = "None"
    /\ orphans = 0
    /\ after = NoAfter
    /\ destroyed = FALSE
    /\ tasks = [pc \in PCs |-> 0]

\* The instance the first command of a guild has constructed and stored in
\* the registry (on_command, line 27).
Init == Constructed /\ cache = TRUE /\ last = Obs("init")

\* The process before the first command of the guild: no instance yet; the
\* fields are those its construction will give.
InitProcess == Constructed /\ cache = FALSE /\ last = Obs("init")

Next ==
    \/ OnCommand \/ OnReady
    \/ Play \/ PlayTopicDone \/ PlayTypingDone \/ PlaySendDone
    \/ PlayConnectDone \/ PlayNextTopicDone
    \/ StreamEnd \/ VoiceAfter \/ AfterNextTopicDone
    \/ Stop \/ StopTopicDone \/ StopDiscDone
    \/ Destroy \/ DestroyTopicDone \/ DestroyDiscDone \/ DestroyEmbedDone
    \/ Pause \/ Resume \/ Toggle
    \/ Skip \/ Remove \/ Rewind
    \/ Shuffle \/ Loop \/ Volume
    \/ MoveText \/ MoveTextDeleteDone \/ MoveTextSendDone
    \/ MoveVoice \/ MoveVoiceDiscDone \/ MoveVoiceConnectDone

Spec == Init /\ [][Next]_vars

\* ------------------------------------------------ sub-specifications
\* The session once its first play has set it up and found nothing to play
\* (play, text_setup, voice_setup, enqueue of an empty result, voice_next on
\* the empty queue): ready, connected, idle.
InitReady ==
    /\ queue = <<>>
    /\ history = <<>>
    /\ loop = "off"
    /\ volume = StoredVolume
    /\ ready_text = TRUE
    /\ ready_voice = FALSE
    /\ ready_player = TRUE
    /\ busy_player = FALSE
    /\ voice_client = "conn"
    /\ embed = TRUE
    /\ topic_channel \in BOOLEAN
    /\ player = "None"
    /\ orphans = 0
    /\ after = NoAfter
    /\ destroyed = FALSE
    /\ tasks = [pc \in PCs |-> 0]
    /\ cache = TRUE
    /\ last = Obs("init")

\* The same without a topic channel: update_topic never suspends.
InitReadyNoTopic == InitReady /\ topic_channel = FALSE

\* The queue discipline of a ready session without a topic channel: play,
\* stream ends, their callbacks, the loop mode.
NextQueue == Play \/ StreamEnd \/ VoiceAfter \/ Loop
SpecQueue == InitReadyNoTopic /\ [][NextQueue]_vars

\* Playback control of a ready session without a topic channel.
NextControl == Play \/ StreamEnd \/ VoiceAfter \/ Skip \/ Rewind \/ Pause
SpecControl == InitReadyNoTopic /\ [][NextControl]_vars

\* A ready session with or without a topic channel: voice_next suspends in
\* update_topic when there is one.
NextTopic ==
    \/ Play \/ PlayNextTopicDone
    \/ StreamEnd \/ VoiceAfter \/ AfterNextTopicDone
    \/ Skip \/ Rewind
SpecTopic == InitReady /\ [][NextTopic]_vars

\* The life of a session from construction: set-up, playback, stop, destroy.
NextLife ==
    \/ Play \/ PlayTopicDone \/ PlayTypingDone \/ PlaySendDone
    \/ PlayConnectDone \/ PlayNextTopicDone
    \/ StreamEnd \/ VoiceAfter \/ AfterNextTopicDone
    \/ Stop \/ StopTopicDone \/ StopDiscDone
    \/ Destroy \/ DestroyTopicDone \/ DestroyDiscDone \/ DestroyEmbedDone
    \/ Loop
SpecLife == Init /\ [][NextLife]_vars

\* A ready session whose embed and voice client are moved while it plays.
NextMove ==
    \/ MoveText \/ MoveTextDeleteDone \/ MoveTextSendDone
    \/ MoveVoice \/ MoveVoiceDiscDone \/ MoveVoiceConnectDone
    \/ Play \/ StreamEnd \/ VoiceAfter
SpecMove == InitReadyNoTopic /\ [][NextMove]_vars

\* InitReady without its observation record: reached from Init under SpecLife.
ReadyIdle ==
    /\ queue = <<>> /\ history = <<>> /\ loop = "off" /\ volume = StoredVolume
    /\ ready_text /\ ~ready_voice /\ ready_player /\ ~busy_player
    /\ voice_client = "conn" /\ embed
    /\ player = "None" /\ orphans = 0 /\ after = NoAfter
    /\ ~destroyed /\ tasks = [pc \in PCs |-> 0]

\* The registry and the life of the session it holds: nothing runs on a
\* session before a command has constructed it.
Registered == cache /\ NextLife
NextRegistry == OnCommand \/ OnReady \/ Registered
SpecRegistry == InitProcess /\ [][NextRegistry]_vars

\* The tracks of a playlist, after its first one "S".
Catalogue == << "A", "B", "C", "D", "E", "F", "G" >>

\* A ready session after play has enqueued a playlist and voice_next has
\* popped its first track and started its stream: that track is the
\* history, the others are the queue.
InitPlaylist ==
    /\ queue \in { SubSeq(Catalogue, 1, n) : n \in 0 .. QueueLen }
    /\ history = << "S" >>
    /\ loop = "off"
    /\ volume = StoredVolume
    /\ ready_text = TRUE
    /\ ready_voice = FALSE
    /\ ready_player = TRUE
    /\ busy_player = FALSE
    /\ voice_client = "conn"
    /\ embed = TRUE
    /\ topic_channel \in BOOLEAN
    /\ player = "playing"
    /\ orphans = 0
    /\ after = NoAfter
    /\ destroyed = FALSE
    /\ tasks = [pc \in PCs |-> 0]
    /\ cache = TRUE
    /\ last = Obs("init")

\* The same without a topic channel.
InitLoaded == InitPlaylist /\ topic_channel = FALSE

\* A playlist that plays with no command sent: every stream ends (WF on
\* StreamEnd), the event loop runs the callback voice_after_ts submits and
\* resumes voice_next when the topic edit has returned.
NextDrain == StreamEnd \/ VoiceAfter \/ AfterNextTopicDone
SpecDrainFair ==
    /\ InitPlaylist /\ [][NextDrain]_vars
    /\ WF_vars(StreamEnd) /\ WF_vars(VoiceAfter)
    /\ WF_vars(AfterNextTopicDone)

\* The queue commands on a playlist that is playing.
NextLoaded == Skip \/ Rewind \/ Remove \/ StreamEnd \/ VoiceAfter
SpecLoaded == InitLoaded /\ [][NextLoaded]_vars

\* Skipping through a playlist that is playing, with the event loop running
\* what voice_after_ts submits to it (run_coroutine_threadsafe, line 821): a
\* pending callback is run.
NextSkip == Skip \/ StreamEnd \/ VoiceAfter
SpecSkipFair == InitLoaded /\ [][NextSkip]_vars /\ WF_vars(VoiceAfter)

\* The settings of a ready session: volume and loop mode.
NextSettings == Volume \/ Loop
SpecSettings == InitReadyNoTopic /\ [][NextSettings]_vars

\* ------------------------------------------------------------ claims
\* Streams that have been started and have neither ended nor been stopped.
ActiveStreams == (IF player = "None" THEN 0 ELSE 1) + orphans

\* C1: in every reachable state at most one playback stream is active; when
\* voice_next starts a stream, the one before it has been stopped.
C1_AtMostOneActiveStream == ActiveStreams <= 1

\* C2: the end of a stream causes at most one advance.  Skip and rewind stop
\* the stream and run no voice_next themselves; the one callback of the
\* stream runs voice_next once, and that run pops at most one track.
C2_OneAdvancePerStreamEnd ==
    /\ last.op \in {"skip", "rewind"} =>
           ~last.adv.ran /\ last.adv.pops = 0 /\ ~last.adv.started
    /\ last.op = "voice_after" => last.adv.pops <= 1

\* The callback of a stream that skip or rewind stopped has run the advance:
\* one track popped, one stream started, no callback left over.
C2_Witness ==
    /\ last.op = "voice_after"
    /\ last.by = "stop"
    /\ last.adv.pops = 1
    /\ last.adv.started
    /\ after = NoAfter

\* C3: a completion callback that runs after destroy is a no-op: no advance,
\* no error, no field changed.
C3_LateCompletionIsNoOp ==
    (last.op = "voice_after" /\ last.late) =>
        /\ last.exc = "none"
        /\ ~last.adv.ran
        /\ ~ready_player /\ queue = <<>> /\ history = <<>>

\* Handlers a user command or a completion enters (not the resumption of a
\* suspended one).
MutatingCommands ==
    { "play", "skip", "remove", "rewind", "shuffle", "volume", "stop",
      "destroy" }

\* C4: while an advance started by a completion callback is between its pop
\* and the start of its stream, no command and no other advance changes the
\* queue, the history or the flags.
C4_AdvanceSerialized ==
    [][ (tasks["after_next_topic"] > 0
         /\ last'.op \in {"skip", "remove", "rewind", "play", "stop",
                          "destroy", "voice_after"})
        => UNCHANGED << queue, history, flags >> ]_vars

\* C5: a command other than play on a session that is not ready changes no
\* field of the session and raises no error.
C5_NotReadyIsNoOp ==
    [][ (~ready_player
         /\ last'.op \in {"pause", "resume", "toggle", "skip", "remove",
                          "rewind", "shuffle", "loop", "volume", "movetext",
                          "movevoice"})
        => (session' = session /\ last'.exc = "none") ]_vars

\* C6: while busy_player is set, a mutating command changes neither the
\* queue, the history nor the flags, and suspends no further transition.
C6_BusyRejects ==
    [][ (busy_player /\ last'.op \in MutatingCommands)
        => (UNCHANGED << queue, history, flags >>
            /\ TaskTotal(tasks') <= TaskTotal(tasks)) ]_vars

\* C7: the history never holds more than history_max tracks.
C7_HistoryCapped == Len(history) <= history_max

\* The queue an enqueue leaves holds the new tracks from position `at` on
\* and the old queue around them.
PlacedAt(e, at) ==
    /\ at >= 1
    /\ at + Len(e.ins) - 1 <= Len(e.q1)
    /\ SubSeq(e.q1, at, at + Len(e.ins) - 1) = e.ins
    /\ SubSeq(e.q1, 1, at - 1) \o SubSeq(e.q1, at + Len(e.ins), Len(e.q1))
         = e.q0

C10_LoopOnRefill ==
    (last.adv.empty /\ last.adv.lp = "on") =>
        /\ last.adv.qe = last.adv.h0
        /\ last.adv.he = <<>>
        /\ IF last.adv.pops = 0
           THEN queue = last.adv.qe /\ history = <<>>
           ELSE /\ last.adv.qp = last.adv.h0
                /\ queue = Tail(last.adv.h0)
                /\ history = << Head(last.adv.h0) >>

\* The empty branch ran on loop "on" with two different tracks played.
C10_Witness ==
    /\ last.adv.empty
    /\ last.adv.lp = "on"
    /\ Len(last.adv.h0) = 2
    /\ last.adv.h0[1] # last.adv.h0[2]
    /\ last.adv.pops = 1


\* C11: a rewind by one on a history that ends with X, Y puts X, Y, in that
\* order, in front of the queue it finds and takes them off the history; on
\* the queue [Z] it leaves exactly [X, Y, Z].
C11_RewindOneRestoresTwo ==
    [][ (/\ Commit(rewind(Cur("rewind"), "1"))
         /\ ready_player /\ voice_client # "None"
         /\ Len(history) >= 2)
        => LET n == Len(history) IN
           /\ queue' = << history[n - 1], history[n] >> \o queue
           /\ history' = SubSeq(history, 1, n - 2)
           /\ last'.moved = 2 ]_vars

\* A rewind has moved two distinct tracks in front of a queue of one.
C11_Witness ==
    /\ last.op = "rewind" /\ last.moved = 2
    /\ last.exc = "none"
    /\ Len(queue) = 3
    /\ Cardinality({ queue[i] : i \in 1 .. 3 }) = 3

\* A skip of everything has just stopped the stream that was playing.
SkippedAll ==
    /\ last.op = "skip" /\ last.stopped
    /\ queue = <<>> /\ last.moved > 0

\* C12: skip("all") on a ready session with a stream and queued tracks
\* (four, or any other number) moves every queued track to the history, so
\* the queue is empty, and stops the stream without advancing itself; that
\* leaves exactly one callback pending; the callback is run, and when it is
\* the next thing to run its advance takes the empty-queue branch and starts
\* no stream.
C12_SkipAllThenEmptyAdvance ==
    /\ [][ (/\ Commit(skip(Cur("skip"), "all"))
            /\ ready_player /\ voice_client # "None" /\ player # "None")
           => /\ queue' = <<>>
              /\ history' = history \o queue
              /\ last'.stopped /\ player' = "None"
              /\ ~last'.adv.ran
              /\ after'.stop + after'.natural = 1 ]_vars
    /\ [][ (SkippedAll /\ last'.op = "voice_after")
           => /\ last'.adv.ran /\ last'.adv.empty
              /\ last'.adv.pops = 0 /\ ~last'.adv.started
              /\ last'.exc = "none"
              /\ after' = NoAfter /\ player' = "None" /\ queue' = <<>> ]_vars
    /\ (SkippedAll ~> (last.op = "voice_after" /\ last.by = "stop"))

\* skip("all") has emptied a queue of four tracks and stopped the stream.
C12_Witness ==
    /\ SkippedAll /\ last.moved = 4 /\ queue = <<>>
    /\ after.stop = 1 /\ player = "None"

\* C13 as stated: removing the range [1, 3) from [A, B, C, D, E] leaves
\* [D, E] and reports two tracks removed.
C13_RemoveRangeLeavesDE ==
    [][ (/\ last'.op = "remove" /\ last'.arg \in RangeArgs
         /\ last'.lo = 1 /\ last'.hi = 3
         /\ ready_player
         /\ queue = << "A", "B", "C", "D", "E" >>)
        => /\ queue' = << "D", "E" >>
           /\ last'.removed = 2 ]_vars

\* C13: removing the range [1, 3) (0-based, upper exclusive: the tracks at
\* positions 1 and 2) from [A, B, C, D, E] leaves [A, D, E], two tracks
\* removed; the history is untouched.
C13_RemoveRangeLeavesADE ==
    [][ (/\ last'.op = "remove" /\ last'.arg \in RangeArgs
         /\ last'.lo = 1 /\ last'.hi = 3
         /\ ready_player
         /\ queue = << "A", "B", "C", "D", "E" >>)
        => /\ queue' = << "A", "D", "E" >>
           /\ last'.removed = 2
           /\ history' = history ]_vars

\* remove("2-3") has taken B and C out of [A, B, C, D, E].
C13_Witness ==
    /\ last.op = "remove" /\ last.arg = "2-3"
    /\ last.lo = 1 /\ last.hi = 3 /\ last.removed = 2
    /\ queue = << "A", "D", "E" >>

\* C14: a remove whose argument parses into the range [lower, upper)
\* (0-based, upper exclusive) fails and leaves the queue as it was when
\* lower < 0, lower >= len, upper > len or upper <= lower; otherwise it
\* removes exactly the upper - lower tracks at lower .. upper - 1 and keeps
\* the others in their order.
C14_RemoveRangeChecked ==
    [][ (/\ last'.op = "remove" /\ last'.arg \in RangeArgs
         /\ ready_player)
        => LET lower == last'.lo
               upper == last'.hi
               len   == Len(queue)
           IN  IF lower < 0 \/ lower >= len \/ upper > len \/ upper <= lower
               THEN /\ queue' = queue
                    /\ last'.removed = 0
                    /\ last'.status \in { "error", "warning" }
                    /\ last'.exc = "none"
               ELSE /\ Len(queue') = len - (upper - lower)
                    /\ last'.removed = upper - lower
                    /\ \A i \in 1 .. Len(queue') :
                          queue'[i] = IF i <= lower THEN queue[i]
                                      ELSE queue[i + (upper - lower)]
                    /\ last'.exc = "none" ]_vars

\* A remove was refused because its range ends behind the queue, which it
\* starts in.
C14_Witness ==
    /\ last.op = "remove" /\ last.arg \in RangeArgs
    /\ last.lo >= 0 /\ last.lo < Len(queue) /\ last.hi > Len(queue)
    /\ last.removed = 0 /\ last.status = "error"

\* C15: volume("+") on a volume v below 100 sets the volume to the next
\* multiple of 10 above v's decade floor (23 to 30, 95 to 100), the
\* smallest multiple of 10 greater than v; at 100 a further "+" leaves the
\* volume as it is and logs a warning on the status line.
C15_VolumeUpStep ==
    [][ (last'.op = "volume" /\ last'.arg = "+" /\ ready_player)
        => IF volume < 100
           THEN /\ volume' = 10 * ((volume \div 10) + 1)
                /\ volume' % 10 = 0
                /\ volume' > volume /\ volume' - volume <= 10
                /\ (volume = 23 => volume' = 30)
                /\ (volume = 95 => volume' = 100)
                /\ last'.status = "-"
           ELSE /\ volume' = volume
                /\ last'.status = "warning" ]_vars

\* volume("+") was refused at 100 with a warning.
C15_Witness ==
    /\ last.op = "volume" /\ last.arg = "+"
    /\ volume = 100 /\ last.status = "warning"

C17_BadNumberIsInputError ==
    [][ (/\ ready_player
         /\ \/ Commit(skip(Cur("skip"), "x"))
            \/ Commit(rewind(Cur("rewind"), "x"))
            \/ Commit(remove(Cur("remove"), "x"))
            \/ Commit(remove(Cur("remove"), "1-x")))
        => /\ last'.exc = "none"
           /\ last'.status = "error"
           /\ queue' = queue /\ history' = history
           /\ ~last'.stopped /\ player' = player ]_vars

\* voice_after_ts, line 821: .result() raises, in the thread of the stream
\* that ended, whatever left voice_after; nothing around it catches.
RaisedInPlayerThread ==
    IF last.op \in { "voice_after", "after_next_topic" } THEN last.exc
    ELSE "none"

\* C18: an exception raised by the continuation (voice_after, voice_next)
\* never reaches the thread of the stream that ended: the bridge catches it.
C18_BridgeCatches == RaisedInPlayerThread = "none"

\* C20: when destroy completes, every field of the session is reset:
\* ready_text, ready_voice, ready_player and busy_player are false, queue
\* and history are empty, the loop mode is off, there is no voice client and
\* no embed.
C20_DestroyResetsAll ==
    last.completed
    => /\ ~ready_text /\ ~ready_voice /\ ~ready_player /\ ~busy_player
       /\ queue = <<>> /\ history = <<>>
       /\ loop = "off"
       /\ voice_client = "None"
       /\ ~embed

\* C19: a command for a session key uses the instance the registry holds
\* unless there is none or that instance was destroyed; after destroy has
\* run on an instance, the next command for the key stores a new instance in
\* the registry and operates on it.
C19_RegistryLookup ==
    [][ last'.op = "on_command"
        => /\ last'.exc = "none"
           /\ cache'
           /\ IF ~cache \/ destroyed
              THEN /\ ~destroyed'
                   /\ queue' = <<>> /\ history' = <<>> /\ loop' = "off"
                   /\ ~ready_text' /\ ~ready_voice' /\ ~ready_player'
                   /\ ~busy_player' /\ voice_client' = "None" /\ ~embed'
              ELSE UNCHANGED << session, destroyed >> ]_vars

\* C21: in every reachable state the loop mode is one of off, on, shuffle:
\* no operation (loop, stop, destroy, voice_next) leaves another value.
C21_LoopModeInEnum == loop \in { "off", "on", "shuffle" }

\* C22: when the acquisition of the stream fails in voice_next after the
\* front track was popped, the track stays consumed (off the queue, last in
\* the history), no stream is started, no callback is armed, an error is
\* logged on the status line and the failure does not leave voice_next.
C22_AcquisitionFailureContained ==
    last.adv.failed
    => /\ queue = Tail(last.adv.qp)
       /\ history # <<>> /\ history[Len(history)] = Head(last.adv.qp)
       /\ ~last.adv.started /\ player = "None"
       /\ last.status = "error"
       /\ last.exc = "none"

C24_EmptyEmptyTerminates ==
    (last.adv.empty /\ last.adv.h0 = <<>>)
    => /\ last.adv.calls = 1
       /\ last.adv.qe = <<>> /\ queue = <<>> /\ history = <<>>
       /\ last.adv.pops = 0 /\ ~last.adv.started
       /\ last.exc = "none"

\* voice_next has run on an empty queue and an empty history while looping.
C24_Witness ==
    /\ last.adv.empty /\ last.adv.h0 = <<>>
    /\ last.adv.lp \in { "on", "shuffle" }
    /\ last.adv.calls = 1 /\ queue = <<>>

\* The session has played its queue out: nothing queued, no stream, no
\* callback pending, no coroutine suspended.
Drained ==
    /\ queue = <<>> /\ player = "None" /\ orphans = 0 /\ after = NoAfter
    /\ tasks = [pc \in PCs |-> 0]

\* One step of a playlist that plays by itself: the queue changes only by
\* losing its head, which becomes the last track of the history; unless its
\* resolution fails, the stream of that track is started in the same segment
\* or, with a topic channel, in the one that resumes voice_next; no stream is
\* started for anything else.
DrainStep ==
    /\ \/ queue' = queue
       \/ /\ queue # <<>> /\ queue' = Tail(queue)
          /\ history' # <<>> /\ history'[Len(history')] = Head(queue)
          /\ \/ last'.adv.failed
             \/ last'.adv.started
             \/ tasks'["after_next_topic"] = 1
    /\ last'.adv.started
       => \/ queue # <<>> /\ queue' = Tail(queue)
          \/ last'.op = "after_next_topic" /\ tasks["after_next_topic"] = 1

\* C25 as stated: with the loop off, no command and every stream ending,
\* every queued track is played once, in queue order, and the session ends
\* up with an empty queue and no stream.
C25_QueueDrains == [][DrainStep]_vars /\ <>Drained

\* C25: with the loop off, no command, every stream ending and every
\* resolution of a track succeeding, every queued track is played once, in
\* queue order, and the session ends up with an empty queue and no stream;
\* a resolution that fails ends the cycle.
C25_QueueDrainsUnlessFailure ==
    [][DrainStep]_vars /\ <>(last.adv.failed \/ Drained)

\* The playlist has played out: the callback of its last stream found the
\* queue empty and a history of tracks played.
C25_Witness ==
    /\ Drained /\ last.op = "voice_after" /\ last.adv.empty
    /\ Len(last.adv.h0) >= 2 /\ history = <<>>

\* C26: skip(n) with n >= 1 on a ready session moves exactly
\* min(n - 1, len(queue)) tracks from the front of the queue to the end of
\* the history, in their order, and stops the stream that is current; the
\* tracks left in the queue keep their order.
C26_SkipMovesFront ==
    [][ \A a \in { "1", "2", "4" } :
          (/\ Commit(skip(Cur("skip"), a))
           /\ ready_player /\ voice_client # "None")
          => LET n == IntOf[a]
                 m == IF n - 1 < Len(queue) THEN n - 1 ELSE Len(queue)
             IN  /\ history' = history \o SubSeq(queue, 1, m)
                 /\ queue' = SubSeq(queue, m + 1, Len(queue))
                 /\ last'.moved = m
                 /\ last'.exc = "none"
                 /\ player' = "None"
                 /\ last'.stopped = (player # "None")
                 /\ ~last'.adv.ran ]_vars

\* skip(4) has moved three tracks of a longer queue to the history and
\* stopped the stream.
C26_Witness ==
    /\ last.op = "skip" /\ last.moved = 3 /\ last.stopped
    /\ queue # <<>> /\ Len(history) >= 3

\* C27 as stated: rewind(n) with n >= 0 takes min(n + 1, len(history))
\* tracks off the end of the history and puts them in front of the queue
\* with the most recently played track at the very front, then stops the
\* stream; an n beyond the history is clamped with a warning, not an error.
C27_RewindMostRecentFirst ==
    [][ \A a \in { "0", "1", "2" } :
          (/\ Commit(rewind(Cur("rewind"), a))
           /\ ready_player /\ voice_client # "None")
          => LET n   == IntOf[a]
                 len == Len(history)
                 k   == IF n + 1 < len THEN n + 1 ELSE len
             IN  /\ history' = SubSeq(history, 1, len - k)
                 /\ Len(queue') = Len(queue) + k
                 /\ k > 0 => queue'[1] = history[len]
                 /\ \A i \in 1 .. Len(queue) : queue'[k + i] = queue[i]
                 /\ last'.status # "error"
                 /\ n > len => last'.status = "warning"
                 /\ player' = "None" ]_vars

\* C27: rewind(n) with n >= 0 on a history that is not empty takes
\* k = min(n + 1, len(history)) tracks off the end of the history and puts
\* them in front of the queue in the order they were played (the oldest of
\* them at the very front, the most recently played at place k), then stops
\* the stream; an n greater than len(history) is clamped with a warning.
\* On an empty history rewind logs an error and does nothing.
C27_RewindKeepsPlayOrder ==
    [][ \A a \in { "0", "1", "2" } :
          (/\ Commit(rewind(Cur("rewind"), a))
           /\ ready_player /\ voice_client # "None")
          => LET n   == IntOf[a]
                 len == Len(history)
                 k   == IF n + 1 < len THEN n + 1 ELSE len
             IN  IF len = 0
                 THEN /\ queue' = queue /\ history' = history
                      /\ player' = player /\ ~last'.stopped
                      /\ last'.status = "error"
                 ELSE /\ history' = SubSeq(history, 1, len - k)
                      /\ queue' = SubSeq(history, len - k + 1, len) \o queue
                      /\ queue'[k] = history[len]
                      /\ last'.moved = k
                      /\ last'.status = IF n > len THEN "warning" ELSE "-"
                      /\ player' = "None"
                      /\ last'.stopped = (player # "None")
                      /\ last'.exc = "none" ]_vars

\* A rewind has stopped the stream after it had put two tracks of the
\* history in front of the queue.
C27_Witness ==
    /\ last.op = "rewind" /\ last.status = "-" /\ last.moved = 2
    /\ last.stopped /\ player = "None"
    /\ Len(queue) >= 2 /\ queue[1] # queue[2]

\* C28: every operation that changes the queue logs the queue and its size
\* (update_queue) before it returns: after each segment that has changed the
\* queue and ended without an exception, the queuesize it last logged is
\* the length of the queue.
C28_QueuePublished ==
    [][ (queue' # queue /\ last'.exc = "none")
        => last'.pub = Len(queue') ]_vars

\* A movetext or a movevoice is between its first and its last line.
Moving ==
    \/ tasks["mt_delete"] > 0 \/ tasks["mt_send"] > 0
    \/ tasks["mv_disc"] > 0 \/ tasks["mv_connect"] > 0

\* C29: movevoice and movetext hold busy_player true for the whole
\* teardown-then-rebuild: while either is suspended between the release of
\* the old resource and the establishment of the new one, busy_player is
\* true.
C29_BusyWhileMoving == Moving => busy_player

\* C30: when the resolver returns no tracks for the query of a play command,
\* the whole command leaves the queue unchanged, whether the session is idle,
\* streaming or paused and whether or not the command interrupts.
C30_EmptyResultKeepsQueue ==
    [][ (last'.op = "play" /\ ~last'.enq.done) => queue' = queue ]_vars

\* C31: every transition that sets busy_player clears it again, whether it
\* succeeds or fails; in particular, when movevoice has returned from its
\* reconnect, busy_player is false.
C31_MoveVoiceClearsBusy ==
    (last.op = "mv_connect" /\ last.exc = "none") => ~busy_player

\* C32: busy_player and ready_player are never both true; an advance run by
\* a stream's callback while stop, destroy or movevoice is suspended does
\* not set ready_player.
C32_BusyExcludesReady == ~(busy_player /\ ready_player)

\* C33: ready_player is true only when the voice connection is established:
\* when the initialisation of a play ends (after text_setup, or after the
\* await of connect) without a connected voice client, ready_player is
\* false, nothing has been enqueued and no advance has been attempted on the
\* absent voice client.
C33_ReadyNeedsVoice ==
    (last.op \in {"play_send", "play_connect"} /\ voice_client # "conn")
    => (~ready_player /\ ~last.enq.done /\ last.exc = "none")

\* The tracks of a list with the number of times each occurs.
TrackBag(s) ==
    [t \in { s[i] : i \in 1 .. Len(s) } |->
        Cardinality({ i \in 1 .. Len(s) : s[i] = t })]

\* C34: skip and rewind only move tracks between the queue and the history:
\* for every argument, the multiset of the tracks in queue plus history is
\* the same after the command as before it (whatever the length of the
\* history: neither command trims it).
C34_SkipRewindKeepTracks ==
    [][ last'.op \in {"skip", "rewind"}
        => TrackBag(queue' \o history') = TrackBag(queue \o history) ]_vars

\* A rewind has moved a track back into a queue that held others, and left
\* some history.
C34_Witness ==
    /\ last.op = "rewind" /\ last.moved = 1
    /\ Len(queue) >= 3 /\ Len(history) >= 2

\* C35: a play that interrupts an active stream consumes exactly one track
\* and leaves that track streaming: the callback of the stream it stopped
\* pops no further track and does not stop the stream just started.
C35_InterruptAdvancesOnce ==
    [][ ( /\ last.op = "play" /\ last.stopped /\ last.adv.started
          /\ last'.op = "voice_after" /\ last'.by = "stop" )
        => (last'.adv.pops = 0 /\ ~last'.stopped /\ queue' = queue
            /\ player' = "playing") ]_vars

\* The step of a play command that does not interrupt, on a ready session
\* (play, lines 133-138).
PlayNoInterrupt ==
    \E index \in Indexes, shuffled \in BOOLEAN :
        \E e \in enqueue(Cur("play"), index, shuffled) :
            \E x \in PlayAdvance(e, FALSE) : Commit(x)

\* C36: a play without interrupt while the stream is paused only enqueues:
\* it runs no voice_next, pops no track, and the paused stream stays the
\* session's current one.
C36_PlayWhilePausedOnlyEnqueues ==
    [][ (ready_player /\ player = "paused" /\ PlayNoInterrupt)
        => (~last'.adv.ran /\ last'.adv.pops = 0 /\ player' = "paused"
            /\ orphans' = orphans) ]_vars
====
